---- MODULE Spec2Model ----
(***************************************************************************)
(* Interval-presence engine of the daemon (src/itd.c).                     *)
(*                                                                         *)
(* The persistent store is the Berkeley DB environment of the daemon: the  *)
(* name table g (username -> id), the id counter g_len, and the interval   *)
(* table ti with its two secondary indexes.  The interval table is kept as *)
(* a sequence in insertion order: the primary key is the whole tuple (a    *)
(* put of an existing tuple overwrites it in place), and both secondary    *)
(* indexes are btrees with unsorted duplicates (DB_DUP), where a new       *)
(* duplicate goes after the existing ones.                                 *)
(*                                                                         *)
(* time_t is scaled down to TS_MIN..TS_MAX; the timestamps a client can    *)
(* send are the values strictly between the two sentinels.                 *)
(***************************************************************************)
EXTENDS Integers, Sequences, FiniteSets, TLC

\* ---------------------------------------------------------------- bounds
MaxT == 2
MaxLines == 3
MaxConnLines == 3

Names == {"alice", "bob"}
Times == 0..MaxT

\* ------------------------------------------------------------- constants
TS_MIN == -1
TS_MAX == MaxT + 1
mtinf == TS_MIN
tinf == TS_MAX
g_notfound == -1

VARIABLES
    gdb,     \* name table: function from the interned usernames to their ids
    g_len,   \* id counter
    tidb,    \* interval table, sequence of [who, min, max] in insertion order
    status,  \* "running", or how the daemon died: "cbug" (CBUG exit), "fault"
             \* (memory fault), "err" (err() of sscantime)
    log,     \* history: the lines processed so far, [op, ts, u]
    qres,    \* outcome of the last line when it was a query, else NoQuery
    fds_active,  \* the descriptors of the select loop
    conn,    \* the call of descr_read in progress: its fd and its local query
    out,     \* the bytes the last line wrote to its descriptor
    eof_seen,    \* history: the open descriptors that have sent an EOF line
    nlines,  \* history: how many lines the descriptors have delivered
    last,    \* history: the last line delivered and how it was handled
    pflags,  \* the flags of the process: PF_WAKE until a signal clears it
    main_pc  \* where main is in its loop

dvars == <<fds_active, conn, out, eof_seen, nlines, last>>

mvars == <<pflags, main_pc>>

vars == <<gdb, g_len, tidb, status, log, qres, dvars, mvars>>

\* The store as one value, for the handlers written as functions of it.
Store == [gdb |-> gdb, g_len |-> g_len, tidb |-> tidb, status |-> status]

\* ------------------------------------------------------------ name table
\* g_insert without the increment of the counter
g_insert_same_id(S, name) ==
    [S EXCEPT !.gdb = (name :> S.g_len) @@ S.gdb]

\* ig, the index of g by id, is opened without DB_DUP: a put that gives the
\* id of another name is refused, and CBUG ends the daemon.
g_insert(S, name) ==
    IF \E n \in DOMAIN S.gdb : n # name /\ S.gdb[n] = S.g_len
    THEN [S EXCEPT !.status = "cbug"]
    ELSE [S EXCEPT !.gdb = (name :> S.g_len) @@ S.gdb, !.g_len = S.g_len + 1]

g_find(G, name) == IF name \in DOMAIN G THEN G[name] ELSE g_notfound

gi_get(G, id) == CHOOSE n \in DOMAIN G : G[n] = id

\* -------------------------------------------------------- interval table
timax_cmp(a, b) == IF b > a THEN -1 ELSE IF a > b THEN 1 ELSE 0

\* The records with index in idx, in the order of the by-max btree.
RECURSIVE max_order(_, _)
max_order(db, idx) ==
    IF idx = {} THEN <<>>
    ELSE LET i == CHOOSE i \in idx : \A j \in idx :
                      \/ timax_cmp(db[i].max, db[j].max) < 0
                      \/ timax_cmp(db[i].max, db[j].max) = 0 /\ i <= j
         IN <<db[i]>> \o max_order(db, idx \ {i})

\* the cursor read with DB_NEXT once before its first record is looked at
max_cursor_next(db, key) ==
    LET cur == max_order(db, {i \in DOMAIN db : timax_cmp(db[i].max, key) >= 0})
    IN IF cur = <<>> THEN cur ELSE Tail(cur)

\* cursor on the by-max index: DB_SET_RANGE at key, then DB_NEXT to the end
max_cursor(db, key) ==
    max_order(db, {i \in DOMAIN db : timax_cmp(db[i].max, key) >= 0})

ti_insert(db, id, start, end) ==
    LET ti == [who |-> id, min |-> start, max |-> end]
    IN IF \E i \in DOMAIN db : db[i] = ti THEN db ELSE Append(db, ti)

\* ti_finish_last closing the first open interval of the table, whoever
\* it belongs to
ti_finish_last_anyone(db, id, end) ==
    LET open == {i \in DOMAIN db : db[i].max = tinf}
    IN IF open = {} THEN [ok |-> FALSE, db |-> db]
       ELSE LET k == CHOOSE i \in open : \A j \in open : i <= j
                ti == [db[k] EXCEPT !.max = end]
                rest == SelectSeq([i \in 1..Len(db) |-> [r |-> db[i], i |-> i]],
                                  LAMBDA e : e.i # k)
                db2 == [i \in 1..Len(rest) |-> rest[i].r]
            IN [ok |-> TRUE,
                db |-> IF \E i \in DOMAIN db2 : db2[i] = ti THEN db2
                       ELSE Append(db2, ti)]

\* Result [ok, db]: ok is FALSE when a CBUG of the walk fires.
ti_finish_last(db, id, end) ==
    LET open == {i \in DOMAIN db : db[i].who = id /\ db[i].max = tinf}
    IN IF open = {} THEN [ok |-> FALSE, db |-> db]
       ELSE LET k == CHOOSE i \in open : \A j \in open : i <= j
                ti == [db[k] EXCEPT !.max = end]
                rest == SelectSeq([i \in 1..Len(db) |-> [r |-> db[i], i |-> i]],
                                  LAMBDA e : e.i # k)
                db2 == [i \in 1..Len(rest) |-> rest[i].r]
            IN [ok |-> TRUE,
                db |-> IF \E i \in DOMAIN db2 : db2[i] = ti THEN db2
                       ELSE Append(db2, ti)]

\* ti_intersect with the end of an interval taken as included
ti_intersect_closed(db, min, max) ==
    SelectSeq(max_cursor(db, min), LAMBDA tmp : tmp.max >= min /\ tmp.min <= max)

ti_intersect(db, min, max) ==
    SelectSeq(max_cursor(db, min), LAMBDA tmp : tmp.max > min /\ tmp.min <= max)

ti_pintersect(db, ts) == ti_intersect(db, ts, ts)

\* ti_intersect of it.c with the test of the daemon
it_ti_intersect_as_daemon(db, min, max) ==
    SelectSeq(max_cursor(db, min), LAMBDA tmp : tmp.max > min /\ tmp.min <= max)

\* ti_intersect of it.c, the batch program: the same cursor, another test
it_ti_intersect(db, min, max) ==
    SelectSeq(max_cursor(db, min), LAMBDA tmp : tmp.max >= min /\ tmp.min < max)

\* ti_present with the end of an interval taken as included
ti_present_closed(db, when, who) ==
    LET cur == max_cursor(db, when)
    IN \E k \in DOMAIN cur :
          cur[k].who = who /\ cur[k].max >= when /\ cur[k].min <= when

\* ti_present without the test on the person
ti_present_anyone(db, when, who) ==
    LET cur == max_cursor(db, when)
    IN \E k \in DOMAIN cur : cur[k].max > when /\ cur[k].min <= when

ti_present(db, when, who) ==
    LET cur == max_cursor(db, when)
    IN \E k \in DOMAIN cur :
          cur[k].who = who /\ cur[k].max > when /\ cur[k].min <= when

\* --------------------------------------------------------------- matches
matches_fix(matches, min, max) ==
    [k \in DOMAIN matches |->
        [matches[k] EXCEPT
            !.min = IF matches[k].min < min THEN min ELSE matches[k].min,
            !.max = IF matches[k].max > max THEN max ELSE matches[k].max]]

\* --------------------------------------------------------------- isplits
isplit_cmp(a, b) ==
    IF b.ts > a.ts THEN -1
    ELSE IF a.ts > b.ts THEN 1
    ELSE IF b.max > a.max THEN -1
    ELSE IF a.max > b.max THEN 1
    ELSE 0

\* element 2i-1 opens match i (max = 0), element 2i closes it (max = 1)
isplits_create(matches) ==
    [k \in 1..(2 * Len(matches)) |->
        LET match == matches[(k + 1) \div 2]
        IN IF k % 2 = 1
           THEN [ts |-> match.min, max |-> 0, who |-> match.who]
           ELSE [ts |-> match.max, max |-> 1, who |-> match.who]]

\* qsort is not stable: every arrangement that isplit_cmp accepts as sorted
\* is a possible result.
RECURSIVE qsort_from(_, _)
qsort_from(isplits, idx) ==
    IF idx = {} THEN {<<>>}
    ELSE LET firsts == {i \in idx : \A j \in idx :
                            isplit_cmp(isplits[i], isplits[j]) <= 0}
             vals == {isplits[i] : i \in firsts}
         IN UNION {LET i == CHOOSE i \in firsts : isplits[i] = v
                   IN {<<v>> \o rest : rest \in qsort_from(isplits, idx \ {i})}
                   : v \in vals}

qsort(isplits) == qsort_from(isplits, DOMAIN isplits)

\* ------------------------------------------------------------------- who
who_init == {}

who_count(whodb) == Cardinality(whodb)

who_insert(whodb, who) == whodb \cup {who}

\* del of a missing key returns DB_NOTFOUND, which CBUG turns into an exit
who_remove(whodb, who) ==
    [ok |-> who \in whodb, whodb |-> whodb \ {who}]

who_get(whodb, who) == who \in whodb

\* ---------------------------------------------------------------- splits
\* count is taken from the split's own who db before the people are copied
split_create(whodb, min, max) ==
    [min |-> min, max |-> max, whodb |-> whodb, count |-> who_count(who_init)]

Ok(splits) == [st |-> "ok", splits |-> splits]

Dead(st) == [st |-> st, splits |-> <<>>]

\* the loop of splits_create from index i (0-based) up to the bound n
RECURSIVE splits_loop(_, _, _, _, _)
splits_loop(isplits, i, n, whodb, splits) ==
    IF ~(i < n) THEN Ok(splits)
    ELSE LET isplit == isplits[i + 1]
             isplit2 == isplits[i + 2]
             rm == who_remove(whodb, isplit.who)
         IN IF isplit.max # 0 /\ ~rm.ok THEN Dead("cbug")
            ELSE LET w == IF isplit.max # 0 THEN rm.whodb
                          ELSE who_insert(whodb, isplit.who)
                 IN IF isplit.ts = isplit2.ts
                    THEN splits_loop(isplits, i + 1, n, w, splits)
                    ELSE splits_loop(isplits, i + 1, n, w,
                             Append(splits,
                                    split_create(w, isplit.ts, isplit2.ts)))

\* The possible outcomes of splits_create.  With matches_l = 0 the bound
\* matches_l * 2 - 1 is computed in size_t and wraps to SIZE_MAX: the loop
\* reads past the empty isplits array until a CBUG or a memory fault ends
\* the process.
splits_create(isplits, matches_l) ==
    IF matches_l = 0 THEN {Dead("cbug"), Dead("fault")}
    ELSE {splits_loop(isplits, 0, matches_l * 2 - 1, who_init, <<>>)}

splits_init(matches, matches_l) ==
    UNION {splits_create(isplits, matches_l) :
              isplits \in qsort(isplits_create(matches))}

splits_get(db, min, max) ==
    LET matches == ti_intersect(db, min, max)
    IN splits_init(matches_fix(matches, min, max), Len(matches))

splits_concat_before(target_head, origin, target_tail) ==
    target_head \o origin \o target_tail

\* the TAILQ_FOREACH_SAFE loop of splits_fill: done holds what is already
\* in front of the current element, todo the elements still to visit
RECURSIVE splits_fill_loop(_, _, _)
splits_fill_loop(db, done, todo) ==
    IF todo = <<>> THEN {Ok(done)}
    ELSE LET split == Head(todo)
         IN IF split.count = 0
            THEN UNION {IF more.st # "ok" THEN {more}
                        ELSE splits_fill_loop(db,
                                 splits_concat_before(done, more.splits, <<>>),
                                 Tail(todo))
                        : more \in splits_get(db, split.min, split.max)}
            ELSE splits_fill_loop(db, Append(done, split), Tail(todo))

splits_fill(db, splits, min, max) ==
    IF splits = <<>> THEN splits_get(db, min, max)
    ELSE LET first == Head(splits)
             before == IF first.min > min
                       THEN splits_get(db, min, first.min)
                       ELSE {Ok(<<>>)}
         IN UNION {
              IF more.st # "ok" THEN {more}
              ELSE LET all == splits_concat_before(<<>>, more.splits, splits)
                       last_max == all[Len(all)].max
                   IN UNION {
                        IF filled.st # "ok" THEN {filled}
                        ELSE IF max > last_max
                             THEN {IF tail.st # "ok" THEN tail
                                   ELSE Ok(filled.splits \o tail.splits)
                                   : tail \in splits_get(db, last_max, max)}
                             ELSE {filled}
                        : filled \in splits_fill_loop(db, <<>>, all)}
              : more \in before}

\* --------------------------------------------------------------- queries
\* interval query: splits_get, then splits_fill on its result
range_query(db, min, max) ==
    UNION {IF got.st # "ok"
           THEN {[st |-> got.st, got |-> <<>>, splits |-> <<>>]}
           ELSE {[st |-> fill.st, got |-> got.splits, splits |-> fill.splits]
                 : fill \in splits_fill(db, got.splits, min, max)}
           : got \in splits_get(db, min, max)}

\* point query: one reply line per match, in cursor order
point_query(S, ts) ==
    LET matches == ti_pintersect(S.tidb, ts)
    IN [k \in DOMAIN matches |-> gi_get(S.gdb, matches[k].who)]

\* ------------------------------------------------------------------ text
\* A line is a sequence of characters.  The timestamps of this model are
\* written as decimal epoch seconds, which both strptime formats of
\* sscantime reject and its strtoull branch accepts.
Digit == [c \in {"0", "1", "2", "3", "4", "5", "6", "7", "8", "9"} |->
             CASE c = "0" -> 0 [] c = "1" -> 1 [] c = "2" -> 2 [] c = "3" -> 3
               [] c = "4" -> 4 [] c = "5" -> 5 [] c = "6" -> 6 [] c = "7" -> 7
               [] c = "8" -> 8 [] c = "9" -> 9]

isspace(c) == c \in {" ", "\t", "\n"}

\* the line from its n-th character on (line += n)
Skip(line, n) == SubSeq(line, n + 1, Len(line))

\* line[k] of the C string; "" stands for the terminator past the end
CharAt(line, k) == IF k + 1 <= Len(line) THEN line[k + 1] ELSE ""

strchr(line, c) == \E k \in DOMAIN line : line[k] = c

RECURSIVE read_spaces(_)
read_spaces(input) ==
    IF input # <<>> /\ isspace(Head(input))
    THEN 1 + read_spaces(Tail(input)) ELSE 0

RECURSIVE read_chars(_, _)
read_chars(input, room) ==
    IF input # <<>> /\ ~isspace(Head(input)) /\ room > 0
    THEN <<Head(input)>> \o read_chars(Tail(input), room - 1) ELSE <<>>

\* [buf, ret]: the word read and the number of characters consumed
read_word(input, max_len) ==
    LET n == read_spaces(input)
        w == read_chars(Skip(input, n), max_len - n)
    IN [buf |-> w, ret |-> n + Len(w)]

RECURSIVE strtoull(_, _)
strtoull(buf, acc) ==
    IF buf = <<>> THEN acc
    ELSE strtoull(Tail(buf), acc * 10 + Digit[Head(buf)])

\* [ok, ts]: ok is FALSE where sscantime ends the process with err()
sscantime(buf) ==
    IF buf # <<>> /\ \A k \in DOMAIN buf : buf[k] \in DOMAIN Digit
    THEN [ok |-> TRUE, ts |-> strtoull(buf, 0)]
    ELSE [ok |-> FALSE, ts |-> 0]

\* [ok, ts, ret]
read_ts(line) ==
    LET w == read_word(line, 20)
        t == sscantime(w.buf)
    IN [ok |-> t.ok, ts |-> t.ts, ret |-> w.ret]

\* --------------------------------------------------------------- replies
DigitChar(n) == <<"0", "1", "2", "3", "4", "5", "6", "7", "8", "9">>[n + 1]

\* printf("%ld")
RECURSIVE sprintf_ld(_)
sprintf_ld(n) ==
    IF n < 0 THEN <<"-">> \o sprintf_ld(0 - n)
    ELSE IF n < 10 THEN <<DigitChar(n)>>
    ELSE sprintf_ld(n \div 10) \o <<DigitChar(n % 10)>>

\* DB_ITER on a hash db: the keys in an order the hash function decides
RECURSIVE db_iter(_)
db_iter(whodb) ==
    IF whodb = {} THEN {<<>>}
    ELSE UNION {{<<who>> \o rest : rest \in db_iter(whodb \ {who})}
                : who \in whodb}

\* one "%s\n" of gi_get per id
RECURSIVE name_lines(_, _)
name_lines(G, ids) ==
    IF ids = <<>> THEN <<>>
    ELSE gi_get(G, Head(ids)) \o <<"\n">> \o name_lines(G, Tail(ids))

\* one " %s" of gi_get per id
RECURSIVE name_words(_, _)
name_words(G, ids) ==
    IF ids = <<>> THEN <<>>
    ELSE <<" ">> \o gi_get(G, Head(ids)) \o name_words(G, Tail(ids))

\* the first loop stopping after the first split
who_any_first(splits) ==
    IF splits = <<>> THEN who_init ELSE Head(splits).whodb

\* first loop of the else branch: everybody who is in some split
RECURSIVE who_any(_)
who_any(splits) ==
    IF splits = <<>> THEN who_init
    ELSE Head(splits).whodb \cup who_any(Tail(splits))

\* the second loop removing nobody
who_every_kept(whodb, splits) == whodb

\* second loop: who_remove of everybody missing from some split
RECURSIVE who_every(_, _)
who_every(whodb, splits) ==
    IF splits = <<>> THEN whodb
    ELSE who_every({who \in whodb : who_get(Head(splits).whodb, who)},
                   Tail(splits))

\* type 1: [direct, buf] for the splits, the names going straight to the fd
RECURSIVE split_lines(_, _)
split_lines(G, splits) ==
    IF splits = <<>> THEN {[direct |-> <<>>, buf |-> <<>>]}
    ELSE LET split == Head(splits)
         IN {[direct |-> name_words(G, ids) \o more.direct,
              buf |-> sprintf_ld(split.max - split.min) \o <<"\n">> \o more.buf]
             : ids \in db_iter(split.whodb),
               more \in split_lines(G, Tail(splits))}

QDead(st) == [st |-> st, out |-> <<>>, type |-> 0, kind |-> "none",
              min |-> 0, max |-> 0, got |-> <<>>, splits |-> <<>>]

\* The outcomes of process_query: how it ends, the bytes the fd receives,
\* and what it computed.  In the switch, case '*' has no break and runs on
\* into case '+'.
process_query(S, line0) ==
    LET c == CharAt(line0, 0)
        type1 == IF c = "*" THEN 1 ELSE 0
        type == IF c = "*" \/ c = "+" THEN 2 ELSE type1
        line == IF c = "*" THEN Skip(Skip(line0, 2), 2)
                ELSE IF c = "+" THEN Skip(line0, 2) ELSE line0
        head == <<"#", " ">> \o line \o <<"\n">>
        space == strchr(line, " ")
        tmin == read_ts(line)
        rest == Skip(line, tmin.ret)
    IN IF ~tmin.ok THEN {QDead("err")}
       ELSE IF space
       THEN LET tmax == read_ts(rest)
            IN IF ~tmax.ok THEN {QDead("err")}
               ELSE UNION {
                 IF r.st # "ok" THEN {QDead(r.st)}
                 ELSE IF type = 1
                 THEN {[st |-> "ok", out |-> l.direct \o head \o l.buf,
                        type |-> type, kind |-> "range",
                        min |-> tmin.ts, max |-> tmax.ts,
                        got |-> r.got, splits |-> r.splits]
                       : l \in split_lines(S.gdb, r.splits)}
                 ELSE LET any == who_any(r.splits)
                          whodb == IF type = 2 THEN who_every(any, r.splits)
                                   ELSE any
                      IN {[st |-> "ok", out |-> head \o name_lines(S.gdb, ids),
                           type |-> type, kind |-> "range",
                           min |-> tmin.ts, max |-> tmax.ts,
                           got |-> r.got, splits |-> r.splits]
                          : ids \in db_iter(whodb)}
                 : r \in range_query(S.tidb, tmin.ts, tmax.ts)}
       ELSE {[st |-> "ok",
              out |-> head \o
                      name_lines(S.gdb,
                          [k \in DOMAIN ti_pintersect(S.tidb, tmin.ts) |->
                              ti_pintersect(S.tidb, tmin.ts)[k].who]),
              type |-> type, kind |-> "point",
              min |-> tmin.ts, max |-> tmin.ts,
              got |-> <<>>, splits |-> <<>>]}

\* ---------------------------------------------------------------- ingest
\* process_stop without the presence test
process_stop_unguarded(S, ts, username) ==
    LET id == g_find(S.gdb, username)
    IN IF id # g_notfound
       THEN LET r == ti_finish_last(S.tidb, id, ts)
            IN IF r.ok THEN [S EXCEPT !.tidb = r.db]
               ELSE [S EXCEPT !.status = "cbug"]
       ELSE LET S1 == g_insert(S, username)
            IN [S1 EXCEPT !.tidb = ti_insert(S1.tidb, S.g_len, mtinf, ts)]

\* process_stop with the bounds of the retroactive interval swapped
process_stop_swapped(S, ts, username) ==
    LET id == g_find(S.gdb, username)
    IN IF id # g_notfound
       THEN IF ti_present(S.tidb, ts, id)
            THEN LET r == ti_finish_last(S.tidb, id, ts)
                 IN IF r.ok THEN [S EXCEPT !.tidb = r.db]
                    ELSE [S EXCEPT !.status = "cbug"]
            ELSE S
       ELSE LET S1 == g_insert(S, username)
            IN [S1 EXCEPT !.tidb = ti_insert(S1.tidb, S.g_len, ts, mtinf)]

process_stop(S, ts, username) ==
    LET id == g_find(S.gdb, username)
    IN IF id # g_notfound
       THEN IF ti_present(S.tidb, ts, id)
            THEN LET r == ti_finish_last(S.tidb, id, ts)
                 IN IF r.ok THEN [S EXCEPT !.tidb = r.db]
                    ELSE [S EXCEPT !.status = "cbug"]
            ELSE S
       ELSE LET S1 == g_insert(S, username)
            IN IF S1.status = "cbug" THEN S1
               ELSE [S1 EXCEPT !.tidb = ti_insert(S1.tidb, S.g_len, mtinf, ts)]

\* process_start without the lookup of the username
process_start_reinterns(S, ts, username) ==
    LET S1 == g_insert(S, username)
        id == S.g_len
    IN IF ~ti_present(S1.tidb, ts, id)
       THEN [S1 EXCEPT !.tidb = ti_insert(S1.tidb, id, ts, tinf)]
       ELSE S1

\* process_start without the presence test
process_start_unguarded(S, ts, username) ==
    LET found == g_find(S.gdb, username)
        S1 == IF found = g_notfound THEN g_insert(S, username) ELSE S
        id == IF found = g_notfound THEN S.g_len ELSE found
    IN IF S1.status = "cbug" THEN S1
       ELSE [S1 EXCEPT !.tidb = ti_insert(S1.tidb, id, ts, tinf)]

process_start(S, ts, username) ==
    LET found == g_find(S.gdb, username)
        S1 == IF found = g_notfound THEN g_insert(S, username) ELSE S
        id == IF found = g_notfound THEN S.g_len ELSE found
    IN IF S1.status = "cbug" THEN S1
       ELSE IF ~ti_present(S1.tidb, ts, id)
       THEN [S1 EXCEPT !.tidb = ti_insert(S1.tidb, id, ts, tinf)]
       ELSE S1

\* The username is read by process_start and process_stop themselves; here
\* it is read at their call.
process_line(S, line) ==
    IF CharAt(line, 0) = "#" \/ CharAt(line, 0) = "\n" THEN S
    ELSE LET op_type_str == read_word(line, 9)
             rest == Skip(line, op_type_str.ret)
             t == read_ts(rest)
             args == Skip(rest, t.ret)
         IN IF ~t.ok THEN [S EXCEPT !.status = "err"]
            ELSE IF CharAt(op_type_str.buf, 0) = "S"
                    /\ CharAt(op_type_str.buf, 1) = "T"
            THEN IF CharAt(op_type_str.buf, 2) = "A"
                 THEN process_start(S, t.ts, read_word(args, 32).buf)
                 ELSE IF CharAt(op_type_str.buf, 2) = "O"
                 THEN process_stop(S, t.ts, read_word(args, 32).buf)
                 ELSE S
            ELSE S

NoQuery == [kind |-> "none", min |-> 0, max |-> 0, st |-> "ok",
            names |-> <<>>, got |-> <<>>, splits |-> <<>>]

\* accept() never hands out descriptor 0 as a client: descr_proc skips fd <= 0
NoFd == 0
\* the listening socket: the first descriptor after stdin, stdout and stderr
srv_fd == 3
Fds == {4}

NoConn == [fd |-> NoFd, query |-> 0]
NoLine == [fd |-> NoFd, line |-> <<>>, how |-> "none", after_eof |-> FALSE]

Init ==
    /\ gdb = <<>>
    /\ g_len = 0
    /\ tidb = <<>>
    /\ status = "running"
    /\ log = <<>>
    /\ qres = NoQuery
    /\ fds_active = {srv_fd}
    /\ conn = NoConn
    /\ out = <<>>
    /\ eof_seen = {}
    /\ nlines = 0
    /\ last = NoLine
    /\ pflags = {"PF_WAKE"}
    /\ main_pc = "while"

\* ------------------------------------------- the engine, line by line
Ingest(op, ts, u, S1) ==
    /\ status = "running"
    /\ Len(log) < MaxLines
    /\ gdb' = S1.gdb
    /\ g_len' = S1.g_len
    /\ tidb' = S1.tidb
    /\ status' = S1.status
    /\ log' = Append(log, [op |-> op, ts |-> ts, u |-> u])
    /\ qres' = NoQuery
    /\ out' = <<>>
    /\ last' = NoLine
    /\ UNCHANGED <<fds_active, conn, eof_seen, nlines, mvars>>

Start(ts, u) == Ingest("START", ts, u, process_start(Store, ts, u))

Stop(ts, u) == Ingest("STOP", ts, u, process_stop(Store, ts, u))

PointQuery(ts) ==
    /\ status = "running"
    /\ Len(log) < MaxLines
    /\ log' = Append(log, [op |-> "POINT", ts |-> ts, u |-> ""])
    /\ qres' = [kind |-> "point", min |-> ts, max |-> ts, st |-> "ok",
                names |-> point_query(Store, ts), got |-> <<>>, splits |-> <<>>]
    /\ UNCHANGED <<gdb, g_len, tidb, status, dvars, mvars>>

RangeQuery(min, max) ==
    /\ status = "running"
    /\ Len(log) < MaxLines
    /\ log' = Append(log, [op |-> "RANGE", ts |-> min, u |-> ""])
    /\ \E r \in range_query(tidb, min, max) :
          /\ qres' = [kind |-> "range", min |-> min, max |-> max,
                      st |-> r.st, names |-> <<>>,
                      got |-> r.got, splits |-> r.splits]
          /\ status' = IF r.st = "ok" THEN status ELSE r.st
    /\ UNCHANGED <<gdb, g_len, tidb, dvars, mvars>>

Next ==
    \/ \E ts \in Times, u \in Names : Start(ts, u)
    \/ \E ts \in Times, u \in Names : Stop(ts, u)
    \/ \E ts \in Times : PointQuery(ts)
    \/ \E min \in Times, max \in Times : RangeQuery(min, max)

Spec == Init /\ [][Next]_vars

\* ------------------------------------------------- the daemon restarted
\* main starts again on the files of the run before: dbs_init opens the
\* tables as they were left, and g_len is the static initialised to 0.
Restart ==
    /\ gdb # <<>>
    /\ g_len' = 0
    /\ status' = "running"
    /\ qres' = NoQuery
    /\ UNCHANGED <<gdb, tidb, log, dvars, mvars>>

NextRestart == Next \/ Restart

SpecRestart == Init /\ [][NextRestart]_vars

\* ------------------------------------------------ the lines of a client
\* a timestamp as a client writes it: decimal, zero-padded to a width
Tok(t, width) ==
    LET d == sprintf_ld(t)
    IN [k \in 1..(width - Len(d)) |-> "0"] \o d

Users == {<<"a">>, <<"b">>}
START == <<"S", "T", "A", "R", "T">>
STOP == <<"S", "T", "O", "P">>
EOF == <<"E", "O", "F">>
UnknownTypes == {<<"P", "A", "U", "S", "E">>, <<"S", "T", "A", "Y">>,
                 <<"S", "T", "O", "M", "P">>}

IngestLine(type, t, u) == type \o <<" ">> \o Tok(t, 1) \o <<" ">> \o u

PointLine(t) == Tok(t, 1)

\* mod is "", "*" or "+"
RangeLine(mod, min, max, width) ==
    (IF mod = "" THEN <<>> ELSE <<mod, " ">>)
        \o Tok(min, width) \o <<" ">> \o Tok(max, width)

Widths(mod) == IF mod = "*" THEN {1, 3} ELSE {1}

RecordLines == {IngestLine(type, t, u) : type \in {START, STOP},
                                        t \in Times, u \in Users}
UnknownTypeLines == {IngestLine(type, 1, <<"a">>) : type \in UnknownTypes}
PointLines == {PointLine(t) : t \in Times}
ModLines(mod) == {RangeLine(mod, min, max, width)
                  : min \in Times, max \in Times, width \in Widths(mod)}
QueryLines == PointLines \cup ModLines("") \cup ModLines("*") \cup ModLines("+")
ClientLines == RecordLines \cup UnknownTypeLines \cup QueryLines
                   \cup {EOF, <<>>, <<"#", " ", "x">>}

\* ------------------------------------- records, then the queries on them
\* Reply interning the query line as a username
Reply_interns(line) ==
    /\ status = "running"
    /\ Len(log) < MaxLines
    /\ log' = Append(log, [op |-> "QUERY", ts |-> 0, u |-> ""])
    /\ last' = [fd |-> NoFd, line |-> line, how |-> "query", after_eof |-> TRUE]
    /\ \E r \in process_query(Store, line) :
          /\ out' = r.out
          /\ qres' = [kind |-> r.kind, min |-> r.min, max |-> r.max,
                      st |-> r.st, names |-> <<>>,
                      got |-> r.got, splits |-> r.splits]
          /\ status' = IF r.st = "ok" THEN status ELSE r.st
    /\ gdb' = g_insert(Store, line).gdb
    /\ g_len' = g_insert(Store, line).g_len
    /\ UNCHANGED <<tidb, fds_active, conn, eof_seen, nlines, mvars>>

\* process_query on a line of a connection that is past its EOF line
Reply(line) ==
    /\ status = "running"
    /\ Len(log) < MaxLines
    /\ log' = Append(log, [op |-> "QUERY", ts |-> 0, u |-> ""])
    /\ last' = [fd |-> NoFd, line |-> line, how |-> "query", after_eof |-> TRUE]
    /\ \E r \in process_query(Store, line) :
          /\ out' = r.out
          /\ qres' = [kind |-> r.kind, min |-> r.min, max |-> r.max,
                      st |-> r.st, names |-> <<>>,
                      got |-> r.got, splits |-> r.splits]
          /\ status' = IF r.st = "ok" THEN status ELSE r.st
    /\ UNCHANGED <<gdb, g_len, tidb, fds_active, conn, eof_seen, nlines,
                   mvars>>

\* the query lines that show-splits parsing leaves alone
PlainLines == PointLines \cup ModLines("") \cup ModLines("+")

NextReply ==
    \/ \E ts \in Times, u \in Users : Start(ts, u)
    \/ \E ts \in Times, u \in Users : Stop(ts, u)
    \/ \E line \in PlainLines : Reply(line)

SpecReply == Init /\ [][NextReply]_vars

\* --------------------------------------- a query line of every modifier
ModifierLines ==
    PointLines \cup UNION {{RangeLine(mod, 0, MaxT, width) : width \in Widths(mod)}
                              : mod \in {"", "*", "+"}}

NextModifiers ==
    \/ \E ts \in Times, u \in Users : Start(ts, u)
    \/ \E ts \in Times, u \in Users : Stop(ts, u)
    \/ \E line \in ModifierLines : Reply(line)

SpecModifiers == Init /\ [][NextModifiers]_vars

\* -------------------------------------------------------- the select loop
\* descr_proc on the listening socket
Accept(fd) ==
    /\ status = "running"
    /\ conn = NoConn
    /\ fd \notin fds_active
    /\ fds_active' = fds_active \cup {fd}
    /\ UNCHANGED <<gdb, g_len, tidb, status, log, qres,
                   conn, out, eof_seen, nlines, last, mvars>>

\* One turn of the loop of descr_read on one line of the buffer.  query is
\* the local of the call: 0 when the call starts.  history is what log
\* becomes when the line is handled as a record.
descr_read_line(fd, line, history) ==
    /\ status = "running"
    /\ fd \in fds_active
    /\ conn.fd \in {NoFd, fd}
    /\ nlines < MaxConnLines
    /\ nlines' = nlines + 1
    /\ LET query == IF conn.fd = fd THEN conn.query ELSE 0
           how == IF line = EOF THEN "eof"
                  ELSE IF query = 1 THEN "query" ELSE "record"
       IN /\ last' = [fd |-> fd, line |-> line, how |-> how,
                      after_eof |-> fd \in eof_seen]
          /\ conn' = [fd |-> fd, query |-> IF line = EOF THEN 1 ELSE query]
          /\ log' = IF how = "record" THEN history ELSE log
          /\ eof_seen' = IF line = EOF THEN eof_seen \cup {fd} ELSE eof_seen
          /\ IF line = EOF
             THEN /\ out' = <<>>
                  /\ qres' = NoQuery
                  /\ UNCHANGED <<gdb, g_len, tidb, status>>
             ELSE IF query = 1
             THEN \E r \in process_query(Store, line) :
                     /\ out' = r.out
                     /\ qres' = [kind |-> r.kind, min |-> r.min, max |-> r.max,
                                 st |-> r.st, names |-> <<>>,
                                 got |-> r.got, splits |-> r.splits]
                     /\ status' = IF r.st = "ok" THEN status ELSE r.st
                     /\ UNCHANGED <<gdb, g_len, tidb>>
             ELSE LET S1 == process_line(Store, line)
                  IN /\ gdb' = S1.gdb
                     /\ g_len' = S1.g_len
                     /\ tidb' = S1.tidb
                     /\ status' = S1.status
                     /\ out' = <<>>
                     /\ qres' = NoQuery
    /\ UNCHANGED <<fds_active, mvars>>

descr_read(fd, line) == descr_read_line(fd, line, log)

\* descr_read_again clearing the descriptor from the active set
descr_read_again_drops(fd) ==
    /\ status = "running"
    /\ conn.fd = fd
    /\ conn' = NoConn
    /\ fds_active' = fds_active \ {fd}
    /\ UNCHANGED <<gdb, g_len, tidb, status, log, qres,
                   out, eof_seen, nlines, last, mvars>>

\* read() gives -1 with EAGAIN: descr_read returns 0 and its locals are gone
descr_read_again(fd) ==
    /\ status = "running"
    /\ conn.fd = fd
    /\ conn' = NoConn
    /\ UNCHANGED <<gdb, g_len, tidb, status, log, qres,
                   fds_active, out, eof_seen, nlines, last, mvars>>

\* descr_read_close undoing what the descriptor has stored
descr_read_close_rollback(fd) ==
    /\ status = "running"
    /\ fd \in fds_active
    /\ conn.fd \in {NoFd, fd}
    /\ conn' = NoConn
    /\ fds_active' = fds_active \ {fd}
    /\ eof_seen' = eof_seen \ {fd}
    /\ gdb' = <<>>
    /\ g_len' = 0
    /\ tidb' = <<>>
    /\ UNCHANGED <<status, log, qres, out, nlines, last, mvars>>

\* read() gives 0, or -1 with another errno: descr_read returns -1 and
\* descr_proc closes the descriptor
descr_read_close(fd) ==
    /\ status = "running"
    /\ fd \in fds_active
    /\ conn.fd \in {NoFd, fd}
    /\ conn' = NoConn
    /\ fds_active' = fds_active \ {fd}
    /\ eof_seen' = eof_seen \ {fd}
    /\ UNCHANGED <<gdb, g_len, tidb, status, log, qres, out, nlines, last,
                   mvars>>

NextDaemon ==
    \/ \E fd \in Fds : Accept(fd)
    \/ \E fd \in Fds, line \in ClientLines : descr_read(fd, line)
    \/ \E fd \in Fds : descr_read_again(fd)
    \/ \E fd \in Fds : descr_read_close(fd)

SpecDaemon == Init /\ [][NextDaemon]_vars

\* ------------------------------------------------------- two connections
Conns == {4, 5}

SharedLines == {IngestLine(START, 0, <<"a">>), IngestLine(STOP, 1, <<"a">>),
                IngestLine(START, 1, <<"b">>), EOF, PointLine(0), PointLine(1)}

\* descr_read, the history keeping the records and their descriptors
descr_read_kept(fd, line) ==
    descr_read_line(fd, line, Append(log, [fd |-> fd, line |-> line]))

NextShared ==
    \/ \E fd \in Conns : Accept(fd)
    \/ \E fd \in Conns, line \in SharedLines : descr_read_kept(fd, line)
    \/ \E fd \in Conns : descr_read_again(fd)
    \/ \E fd \in Conns : descr_read_close(fd)

SpecShared == Init /\ [][NextShared]_vars

\* ------------------------------------------------- the main loop, shutdown
\* The signal handler of SIGINT and SIGTERM.  It runs between any two
\* statements of main and of what main calls.
sig_shutdown ==
    /\ status = "running"
    /\ "PF_WAKE" \in pflags
    /\ pflags' = pflags \ {"PF_WAKE"}
    /\ UNCHANGED <<gdb, g_len, tidb, status, log, qres, dvars, main_pc>>

\* while (pflags & PF_WAKE): into the body, or past the loop to the closing
\* of the tables and return EXIT_SUCCESS
main_while ==
    /\ status = "running"
    /\ main_pc = "while"
    /\ IF "PF_WAKE" \in pflags
       THEN main_pc' = "select" /\ status' = status
       ELSE main_pc' = "return" /\ status' = "exit0"
    /\ UNCHANGED <<gdb, g_len, tidb, log, qres, dvars, pflags>>

\* the timeout is set, fds_read = fds_active, and select() is entered
main_select ==
    /\ status = "running"
    /\ main_pc = "select"
    /\ main_pc' = "wait"
    /\ UNCHANGED <<gdb, g_len, tidb, status, log, qres, dvars, pflags>>

\* select() returns 0 after its second, or -1 with EINTR: continue
select_timeout ==
    /\ status = "running"
    /\ main_pc = "wait"
    /\ main_pc' = "while"
    /\ UNCHANGED <<gdb, g_len, tidb, status, log, qres, dvars, pflags>>

\* select() returns the number of ready descriptors: descr_proc is called
select_ready ==
    /\ status = "running"
    /\ main_pc = "wait"
    /\ main_pc' = "proc"
    /\ UNCHANGED <<gdb, g_len, tidb, status, log, qres, dvars, pflags>>

\* the calls of descr_proc are over: back to the test of the loop
proc_done ==
    /\ status = "running"
    /\ main_pc = "proc"
    /\ conn = NoConn
    /\ main_pc' = "while"
    /\ UNCHANGED <<gdb, g_len, tidb, status, log, qres, dvars, pflags>>

proc_accept(fd) == main_pc = "proc" /\ Accept(fd)

proc_read(fd, line) == main_pc = "proc" /\ descr_read(fd, line)

proc_read_again(fd) == main_pc = "proc" /\ descr_read_again(fd)

proc_read_close(fd) == main_pc = "proc" /\ descr_read_close(fd)

ShutdownLines == {IngestLine(START, 0, <<"a">>), IngestLine(STOP, 1, <<"a">>),
                  EOF, PointLine(0), RangeLine("", 0, 1, 1), <<>>}

NextShutdown ==
    \/ sig_shutdown
    \/ main_while
    \/ main_select
    \/ select_timeout
    \/ select_ready
    \/ proc_done
    \/ \E fd \in Fds : proc_accept(fd)
    \/ \E fd \in Fds, line \in ShutdownLines : proc_read(fd, line)
    \/ \E fd \in Fds : proc_read_again(fd)
    \/ \E fd \in Fds : proc_read_close(fd)

SpecShutdown == Init /\ [][NextShutdown]_vars

\* ================================================================ claims
Range(seq) == {seq[k] : k \in DOMAIN seq}

AllTs == TS_MIN..TS_MAX

\* the usernames a point query at ts lists
PointNames(S, ts) == Range(point_query(S, ts))

IsIngest(l) == l.op \in {"START", "STOP"}

\* the last ingested event of user u is START(ts, u)
LastIsStart(u, ts) ==
    \E k \in DOMAIN log :
        /\ log[k] = [op |-> "START", ts |-> ts, u |-> u]
        /\ \A j \in DOMAIN log : j > k => ~(IsIngest(log[j]) /\ log[j].u = u)

\* u has a finished stay that covers ts
ClosedCover(u, ts) ==
    \E k \in DOMAIN tidb :
        /\ tidb[k].who = g_find(gdb, u)
        /\ tidb[k].min <= ts /\ ts < tidb[k].max /\ tidb[k].max < tinf

\* C1 (I1): after every ingest step every person has at most one stored
\* interval with tMax = T_MAX.
I1_OneOpenInterval ==
    \A p \in 0..(g_len - 1) :
        Cardinality({k \in DOMAIN tidb :
                        tidb[k].who = p /\ tidb[k].max = tinf}) <= 1

\* C2 (I2): any two stored intervals of the same person are disjoint in time
\* (they may abut).
I2_Disjoint ==
    \A i, j \in DOMAIN tidb :
        (i < j /\ tidb[i].who = tidb[j].who) =>
            LET lo == IF tidb[i].min > tidb[j].min THEN tidb[i].min
                      ELSE tidb[j].min
                hi == IF tidb[i].max < tidb[j].max THEN tidb[i].max
                      ELSE tidb[j].max
            IN ~(lo < hi)

\* C3: every stored interval satisfies tMin <= tMax.
MinLeMax == \A k \in DOMAIN tidb : tidb[k].min <= tidb[k].max

\* C4 (R1): in any store state, START(t,u) ingested twice in a row leaves the
\* interval table, the name table and the id counter as one START does.
R1_StartIdempotent ==
    status = "running" =>
        \A ts \in Times, u \in Names :
            LET S1 == process_start(Store, ts, u)
            IN process_start(S1, ts, u) = S1

R1_Witness ==
    /\ status = "running"
    /\ Len(log) >= 2
    /\ log[Len(log)].op = "START"
    /\ log[Len(log)] = log[Len(log) - 1]
    /\ \E k \in DOMAIN tidb :
          tidb[k] = [who |-> g_find(gdb, log[Len(log)].u),
                     min |-> log[Len(log)].ts, max |-> tinf]

\* C5 (R2): STOP(t,u) for a known user u who is not present at t changes
\* neither the interval table nor the name table, and the daemon keeps running.
R2_StopNoop ==
    status = "running" =>
        \A ts \in Times, u \in Names :
            (/\ g_find(gdb, u) # g_notfound
             /\ ~ti_present(tidb, ts, g_find(gdb, u)))
            => process_stop(Store, ts, u) = Store

R2_Witness ==
    /\ status = "running"
    /\ log = <<[op |-> "START", ts |-> 0, u |-> "alice"],
               [op |-> "STOP", ts |-> 1, u |-> "alice"],
               [op |-> "STOP", ts |-> 2, u |-> "alice"]>>
    /\ tidb = <<[who |-> 0, min |-> 0, max |-> 1]>>

\* C6: STOP(t,u) for a username never seen before interns u and stores
\* (id, T_MIN, t); a point query right after it lists u at every t' < t and
\* at no t' >= t.
RetroactiveStop ==
    status = "running" =>
        \A ts \in Times, u \in Names :
            g_find(gdb, u) = g_notfound =>
                LET S1 == process_stop(Store, ts, u)
                    id == g_find(S1.gdb, u)
                IN /\ id # g_notfound
                   /\ S1.status = "running"
                   /\ [who |-> id, min |-> mtinf, max |-> ts] \in Range(S1.tidb)
                   /\ \A t2 \in AllTs :
                         /\ t2 < ts => u \in PointNames(S1, t2)
                         /\ t2 >= ts => u \notin PointNames(S1, t2)

RetroactiveStop_Witness ==
    /\ status = "running"
    /\ Len(log) = 2
    /\ log[1].op = "STOP" /\ log[2].op = "POINT" /\ log[2].ts < log[1].ts
    /\ tidb = <<[who |-> 0, min |-> mtinf, max |-> log[1].ts]>>
    /\ qres.names = <<log[1].u>>

B1_HalfOpen ==
    \A k \in DOMAIN tidb :
        tidb[k].min < tidb[k].max =>
            /\ gi_get(gdb, tidb[k].who) \in PointNames(Store, tidb[k].min)
            /\ tidb[k] \notin Range(ti_pintersect(tidb, tidb[k].max))

B1_Witness ==
    /\ status = "running"
    /\ qres.kind = "point"
    /\ qres.names = <<>>
    /\ \E k \in DOMAIN tidb :
          tidb[k].min < tidb[k].max /\ qres.min = tidb[k].max

\* the ranges of splits are ascending, pairwise disjoint and cover [min,max]
Tiles(splits, min, max) ==
    /\ splits # <<>>
    /\ splits[1].min = min
    /\ splits[Len(splits)].max = max
    /\ \A k \in DOMAIN splits : splits[k].min <= splits[k].max
    /\ \A k \in 1..(Len(splits) - 1) : splits[k].max = splits[k + 1].min

\* C9 (I3): for a non-empty store and a range with min < max, the splits
\* left by splits_get and splits_fill are ascending, pairwise disjoint and
\* their union is [min,max].
I3_GapFillCovers ==
    (/\ status = "running"
     /\ qres.kind = "range"
     /\ qres.min < qres.max
     /\ tidb # <<>>)
    => Tiles(qres.splits, qres.min, qres.max)

\* the persons with a stored interval that, clipped to [min,max], covers split
Covering(split, min, max) ==
    LET clipped == matches_fix(tidb, min, max)
    IN {clipped[k].who : k \in {j \in DOMAIN clipped :
            clipped[j].min <= split.min /\ split.max <= clipped[j].max}}

\* C10 (I4): the presence set of every split produced by splits_get is the
\* set of persons with a stored interval that, clipped to the query, covers
\* the split.
I4_PresenceExact ==
    (status = "running" /\ qres.kind = "range") =>
        \A k \in DOMAIN qres.got :
            qres.got[k].whodb = Covering(qres.got[k], qres.min, qres.max)

\* the match list {(p, s.min, s.max) : p in s.whodb, s in splits}, split by
\* split, the persons of one split in ascending id order
RECURSIVE WhoMatches(_, _, _)
WhoMatches(whodb, min, max) ==
    IF whodb = {} THEN <<>>
    ELSE LET p == CHOOSE p \in whodb : \A q \in whodb : p <= q
         IN <<[who |-> p, min |-> min, max |-> max]>>
            \o WhoMatches(whodb \ {p}, min, max)

RECURSIVE SplitMatches(_)
SplitMatches(splits) ==
    IF splits = <<>> THEN <<>>
    ELSE WhoMatches(Head(splits).whodb, Head(splits).min, Head(splits).max)
         \o SplitMatches(Tail(splits))

\* C11 (R3): running splits_init again on the match list made of the splits
\* that splits_get produced returns the same splits, in the same order and
\* with the same presence sets.
R3_SplitsRoundTrip ==
    (status = "running" /\ qres.kind = "range" /\ qres.got # <<>>) =>
        LET matches == SplitMatches(qres.got)
        IN splits_init(matches, Len(matches)) = {Ok(qres.got)}

\* C12 (B2): an interval query [t,t] leaves a single split iff some stored
\* interval satisfies the overlap predicate at t; when none does the query
\* completes with the empty sequence.
B2_PointRange ==
    (qres.kind = "range" /\ qres.min = qres.max) =>
        /\ status = "running"
        /\ Len(qres.splits) = 1 <=> ti_pintersect(tidb, qres.min) # <<>>
        /\ ti_pintersect(tidb, qres.min) = <<>> => qres.splits = <<>>

\* what follows the first line of a reply
RECURSIVE AfterFirstLine(_)
AfterFirstLine(bytes) ==
    IF bytes = <<>> THEN <<>>
    ELSE IF Head(bytes) = "\n" THEN Tail(bytes)
    ELSE AfterFirstLine(Tail(bytes))

IsSuffix(t, bytes) ==
    /\ Len(t) <= Len(bytes)
    /\ SubSeq(bytes, Len(bytes) - Len(t) + 1, Len(bytes)) = t

\* the ways to list every member of a set exactly once
Listings(set) ==
    {l \in [1..Cardinality(set) -> set] :
        \A j, k \in DOMAIN l : j # k => l[j] # l[k]}

InSomeSplit(splits) == UNION {splits[k].whodb : k \in DOMAIN splits}

InEverySplit(splits) ==
    {who \in InSomeSplit(splits) : \A k \in DOMAIN splits : who \in splits[k].whodb}

\* "<durationSeconds> <name>*" for every split, in the order of the splits
RECURSIVE ShowSplitsReplies(_, _)
ShowSplitsReplies(G, splits) ==
    IF splits = <<>> THEN {<<>>}
    ELSE LET split == Head(splits)
         IN {sprintf_ld(split.max - split.min) \o name_words(G, ids)
                 \o <<"\n">> \o more
             : ids \in Listings(split.whodb),
               more \in ShowSplitsReplies(G, Tail(splits))}

\* C13: whenever the daemon answers a query line "* <min> <max>" whose range
\* has a gap-filled sequence, the reply ends with one line per split of it,
\* in ascending time order, each the duration of the split followed by the
\* names of exactly its presence set.
ShowSplits ==
    \A min \in Times, max \in Times, width \in Widths("*") :
        (last.how = "query" /\ last.line = RangeLine("*", min, max, width)
             /\ qres.st = "ok"
             /\ \E r \in range_query(tidb, min, max) : r.st = "ok") =>
            \E r \in range_query(tidb, min, max) :
                /\ r.st = "ok"
                /\ \E lines \in ShowSplitsReplies(gdb, r.splits) :
                      IsSuffix(lines, out)

\* C14: whenever the daemon answers a query line "+ <min> <max>", the reply
\* lists after its first line exactly the usernames that are in the presence
\* set of every split of the gap-filled sequence, each once.
AlwaysPresent ==
    (last.how = "query" /\ last.line \in ModLines("+") /\ qres.st = "ok") =>
        /\ qres.kind = "range"
        /\ \E ids \in Listings(InEverySplit(qres.splits)) :
              AfterFirstLine(out) = name_lines(gdb, ids)

AlwaysPresent_Witness ==
    /\ last.how = "query" /\ last.line \in ModLines("+") /\ qres.st = "ok"
    /\ Len(qres.splits) > 1
    /\ InEverySplit(qres.splits) # {}
    /\ InEverySplit(qres.splits) # InSomeSplit(qres.splits)
    /\ AfterFirstLine(out) # <<>>

\* C15: whenever the daemon answers a query line "<min> <max>" without
\* modifier, the reply lists after its first line exactly the usernames that
\* are in the presence set of at least one split of the gap-filled sequence,
\* each exactly once.
DefaultUnion ==
    (last.how = "query" /\ last.line \in ModLines("") /\ qres.st = "ok") =>
        /\ qres.kind = "range"
        /\ \E ids \in Listings(InSomeSplit(qres.splits)) :
              AfterFirstLine(out) = name_lines(gdb, ids)

DefaultUnion_Witness ==
    /\ last.how = "query" /\ last.line \in ModLines("") /\ qres.st = "ok"
    /\ Len(qres.splits) > 1
    /\ Cardinality(InSomeSplit(qres.splits)) = 2
    /\ InEverySplit(qres.splits) # InSomeSplit(qres.splits)
    /\ Head(qres.splits).whodb # InSomeSplit(qres.splits)

\* C16: every reply starts with "# ", the query line as the client sent it
\* (its modifier included) and a newline.
PrefixEchoesQuery ==
    (last.how = "query" /\ qres.st = "ok") =>
        LET prefix == <<"#", " ">> \o last.line \o <<"\n">>
        IN /\ Len(out) >= Len(prefix)
           /\ SubSeq(out, 1, Len(prefix)) = prefix

\* C17: once a connection has sent a line equal to EOF, no later line of that
\* connection is handled as an ingest record.
NeverBackToIngest == ~(last.how = "record" /\ last.after_eof)

\* C18: the id the counter gives to the next new username is the id of no
\* username of the table, also after a restart.
IdsNeverReused == \A name \in DOMAIN gdb : gdb[name] # g_len

\* the usernames of the ingest lines, in the order of their first reference
RECURSIVE FirstRefs(_, _)
FirstRefs(l, seen) ==
    IF l = <<>> THEN <<>>
    ELSE IF IsIngest(Head(l)) /\ Head(l).u \notin seen
    THEN <<Head(l).u>> \o FirstRefs(Tail(l), seen \cup {Head(l).u})
    ELSE FirstRefs(Tail(l), seen)

\* C19: within one run, after any sequence of START/STOP lines, the name
\* table holds exactly the usernames referenced so far, the k-th of them in
\* the order of first reference under id k-1 (an entry is never removed, a
\* lookup never changes, two names never share an id), and the name of the
\* id of a name is that name.
NameTableBijection ==
    LET refs == FirstRefs(log, {})
    IN /\ DOMAIN gdb = Range(refs)
       /\ g_len = Len(refs)
       /\ \A k \in DOMAIN refs :
             /\ g_find(gdb, refs[k]) = k - 1
             /\ gi_get(gdb, g_find(gdb, refs[k])) = refs[k]

NameTableBijection_Witness ==
    /\ Cardinality(DOMAIN gdb) = 2
    /\ Len(log) = MaxLines
    /\ log[1].op = "STOP"
    /\ log[3].op = "START" /\ log[3].u = log[1].u

\* C20: a line of a connection in INGEST with a valid timestamp and a record
\* type that is neither START nor STOP leaves the interval table and the name
\* table as they were, and writes nothing.
UnknownTypeDropped ==
    [][(nlines' # nlines /\ last'.how = "record"
            /\ last'.line \in UnknownTypeLines) =>
          (gdb' = gdb /\ g_len' = g_len /\ tidb' = tidb /\ out' = <<>>)]_vars

\* C21: a blank line or a line beginning with # that is handled in INGEST
\* leaves the interval table and the name table as they were, and the daemon
\* keeps running.
BlankAndCommentIgnored ==
    [][(nlines' # nlines /\ last'.how = "record"
            /\ (last'.line = <<>> \/ CharAt(last'.line, 0) = "#")) =>
          (gdb' = gdb /\ g_len' = g_len /\ tidb' = tidb
              /\ status' = "running")]_vars

EmptyStore == [gdb |-> <<>>, g_len |-> 0, tidb |-> <<>>, status |-> "running"]

\* the store after the records of a history, applied one after the other
RECURSIVE Replay(_, _)
Replay(S, history) ==
    IF history = <<>> \/ S.status # "running" THEN S
    ELSE Replay(process_line(S, Head(history).line), Tail(history))

\* C22: the interval table and the name table are those that the records
\* of all the connections give when applied whole, one after the other in
\* the order of their arrival, whether their connections are still open or
\* not; and a reply on any connection is a reply of that store.
SharedStore ==
    LET S == Replay(EmptyStore, log)
    IN /\ gdb = S.gdb
       /\ g_len = S.g_len
       /\ tidb = S.tidb
       /\ (last.how = "query" /\ qres.st = "ok") =>
             out \in {r.out : r \in process_query(S, last.line)}

SharedStore_Witness ==
    /\ \E k \in DOMAIN log : log[k].fd = 4 /\ log[k].line \in RecordLines
    /\ 4 \notin fds_active
    /\ last.how = "query" /\ last.fd = 5 /\ qres.st = "ok"
    /\ AfterFirstLine(out) # <<>>

OneBoundaryConvention ==
    \A u \in DOMAIN gdb, t \in Times :
        /\ u \in PointNames(Store, t) <=> ti_present(tidb, t, gdb[u])
        /\ ti_present(tidb, t, gdb[u]) <=>
              \E k \in DOMAIN tidb :
                  /\ tidb[k].who = gdb[u]
                  /\ tidb[k].min <= t /\ t < tidb[k].max

\* somebody listed at one instant and, at the end of their interval, not
OneBoundaryConvention_Witness ==
    \E u \in DOMAIN gdb, k \in DOMAIN tidb :
        /\ tidb[k].who = gdb[u]
        /\ tidb[k].max \in Times /\ tidb[k].min \in Times
        /\ tidb[k].min < tidb[k].max
        /\ u \in PointNames(Store, tidb[k].min)
        /\ u \notin PointNames(Store, tidb[k].max)

\* C25: an interval query whose range no stored interval overlaps
\* terminates, and its split sequence before gap filling is empty.
NoMatchNoSplit ==
    (qres.kind = "range" /\ ti_intersect(tidb, qres.min, qres.max) = <<>>) =>
        /\ status = "running"
        /\ qres.st = "ok"
        /\ qres.got = <<>>

\* C26: the count of every split that the split engine creates is the
\* number of persons of its presence set.
CountMirrorsPresent ==
    (qres.kind = "range" /\ qres.st = "ok") =>
        /\ \A k \in DOMAIN qres.got :
              qres.got[k].count = Cardinality(qres.got[k].whodb)
        /\ \A k \in DOMAIN qres.splits :
              qres.splits[k].count = Cardinality(qres.splits[k].whodb)

\* the matches with tMin < tMax
WideMatches(matches) == SelectSeq(matches, LAMBDA match : match.min # match.max)

\* every split of splits lies in a split of wide with the same presence
\* set, or lies beside all of them with nobody present
SamePresence(splits, wide) ==
    \A k \in DOMAIN splits :
        \/ \E j \in DOMAIN wide :
              /\ wide[j].min <= splits[k].min /\ splits[k].max <= wide[j].max
              /\ wide[j].whodb = splits[k].whodb
        \/ /\ splits[k].whodb = {}
           /\ \A j \in DOMAIN wide :
                 splits[k].max <= wide[j].min \/ wide[j].max <= splits[k].min

\* C27: where the matches of a range hold matches with tMin = tMax beside
\* others, the sweep ends as it does without them, puts out no split with
\* tMin = tMax, and gives every split the presence set it has without them.
ZeroWidthMatchNeutral ==
    \A min \in Times, max \in Times :
        LET matches == matches_fix(ti_intersect(tidb, min, max), min, max)
            wide == WideMatches(matches)
        IN (/\ min <= max
            /\ wide # <<>> /\ wide # matches
            /\ \E r0 \in splits_init(wide, Len(wide)) : r0.st = "ok") =>
               \A r \in splits_init(matches, Len(matches)) :
                   /\ r.st = "ok"
                   /\ \A k \in DOMAIN r.splits :
                         r.splits[k].min # r.splits[k].max
                   /\ \E r0 \in splits_init(wide, Len(wide)) :
                         r0.st = "ok" /\ SamePresence(r.splits, r0.splits)

\* C29: once sig_shutdown has cleared PF_WAKE, the daemon enters no further
\* select(), and the line in progress leaves it running until main returns
\* EXIT_SUCCESS: it ends in no other way.
ShutdownAtNextTick ==
    [][("PF_WAKE" \notin pflags)
          => /\ ~(main_pc = "select" /\ main_pc' = "wait")
             /\ status' \in {"running", "exit0"}]_vars

\* C30: ti_intersect of it.c and ti_intersect of itd.c disagree.  On every
\* store and every range, it.c alone returns the intervals that end at min
\* and begin before max, itd.c alone returns the intervals that begin at max
\* and end after min; so the point query at the tMin of a stored interval
\* of positive length, and the one at its tMax, give different match sets.
OverlapPredicatesDiffer ==
    /\ \A min \in Times, max \in Times :
          LET batch == Range(it_ti_intersect(tidb, min, max))
              daemon == Range(ti_intersect(tidb, min, max))
          IN /\ batch \ daemon
                   = {ti \in Range(tidb) : ti.max = min /\ ti.min < max}
             /\ daemon \ batch
                   = {ti \in Range(tidb) : ti.min = max /\ ti.max > min}
    /\ \A k \in DOMAIN tidb :
          tidb[k].min < tidb[k].max =>
             /\ tidb[k].min \in Times =>
                   /\ tidb[k] \in Range(ti_intersect(tidb, tidb[k].min, tidb[k].min))
                   /\ tidb[k] \notin Range(it_ti_intersect(tidb, tidb[k].min,
                                                           tidb[k].min))
             /\ tidb[k].max \in Times =>
                   /\ tidb[k] \notin Range(ti_intersect(tidb, tidb[k].max,
                                                        tidb[k].max))
                   /\ tidb[k] \in Range(it_ti_intersect(tidb, tidb[k].max,
                                                       tidb[k].max))

OverlapPredicatesDiffer_Witness ==
    \E k \in DOMAIN tidb :
       /\ tidb[k].min \in Times
       /\ tidb[k].max \in Times
       /\ tidb[k].min < tidb[k].max
       /\ Range(it_ti_intersect(tidb, tidb[k].min, tidb[k].min))
             # Range(ti_intersect(tidb, tidb[k].min, tidb[k].min))
       /\ Range(it_ti_intersect(tidb, tidb[k].max, tidb[k].max))
             # Range(ti_intersect(tidb, tidb[k].max, tidb[k].max))

\* the line handled last
LastLine == log[Len(log)]

\* C31: no sequence of START/STOP lines ends the daemon in process_stop:
\* when process_stop calls ti_finish_last for a person, the walk over the
\* person's intervals finds one with tMax = T_MAX, so no CBUG fires.
StopNeverAborts ==
    ~(log # <<>> /\ LastLine.op = "STOP" /\ status = "cbug")

\* C32: right after STOP(t,u) has been processed, whatever the store was
\* before it, u is not present at t.
StopPostcondition ==
    (log # <<>> /\ LastLine.op = "STOP" /\ status = "running")
        => ~ti_present(tidb, LastLine.ts, g_find(gdb, LastLine.u))

\* the timestamps of the START/STOP lines do not decrease as they arrive
NonDecreasing ==
    \A i, j \in DOMAIN log :
        (i < j /\ IsIngest(log[i]) /\ IsIngest(log[j]))
            => log[i].ts <= log[j].ts

\* C33: when the timestamps of the ingested START/STOP lines never decrease,
\* every person has at most one open interval, the intervals of one person
\* are pairwise disjoint, every interval has tMin <= tMax, and no STOP ends
\* in the CBUG of ti_finish_last.
OrderedIngestKeepsInvariants ==
    NonDecreasing
        => /\ I1_OneOpenInterval
           /\ I2_Disjoint
           /\ MinLeMax
           /\ StopNeverAborts

OrderedIngestKeepsInvariants_Witness ==
    /\ NonDecreasing
    /\ status = "running"
    /\ Len(log) = MaxLines
    /\ \A k \in DOMAIN log : IsIngest(log[k])
    /\ LastLine.op = "STOP"
    /\ \E k \in DOMAIN tidb :
          /\ tidb[k].who = g_find(gdb, LastLine.u)
          /\ tidb[k].min \in Times
          /\ tidb[k].min < tidb[k].max
          /\ tidb[k].max = LastLine.ts
    /\ \E k \in DOMAIN tidb : tidb[k].max = tinf

\* the matches of one person do not overlap (they may abut)
PersonsDisjoint(matches) ==
    \A i, j \in DOMAIN matches :
        (i < j /\ matches[i].who = matches[j].who) =>
            LET lo == IF matches[i].min > matches[j].min THEN matches[i].min
                      ELSE matches[j].min
                hi == IF matches[i].max < matches[j].max THEN matches[i].max
                      ELSE matches[j].max
            IN ~(lo < hi)

\* splits are ascending, each of positive length, each ending where the next
\* begins, from the earliest tMin of matches to their latest tMax
TilesMatches(splits, matches) ==
    LET first == CHOOSE t \in {matches[k].min : k \in DOMAIN matches} :
                     \A k \in DOMAIN matches : t <= matches[k].min
        final == CHOOSE t \in {matches[k].max : k \in DOMAIN matches} :
                     \A k \in DOMAIN matches : matches[k].max <= t
    IN /\ \A k \in DOMAIN splits : splits[k].min < splits[k].max
       /\ \A k \in 1..(Len(splits) - 1) : splits[k].max = splits[k + 1].min
       /\ IF splits = <<>> THEN first = final
          ELSE splits[1].min = first /\ splits[Len(splits)].max = final

\* C34: for a non-empty match list in which every match has tMin <= tMax and
\* the matches of one person do not overlap, splits_init ends without CBUG
\* and its splits are in strictly ascending order, each with tMin < tMax,
\* each ending where the next begins, from the earliest tMin of the matches
\* to their latest tMax.
SplitsTileMatches ==
    \A min \in Times, max \in Times :
        LET matches == matches_fix(ti_intersect(tidb, min, max), min, max)
        IN (/\ min <= max
            /\ matches # <<>>
            /\ \A k \in DOMAIN matches : matches[k].min <= matches[k].max
            /\ PersonsDisjoint(matches))
           => \A r \in splits_init(matches, Len(matches)) :
                 r.st = "ok" /\ TilesMatches(r.splits, matches)

\* C38: for every store reached by START/STOP lines and every range with
\* min <= max that matches something, the sweep of splits_create ends without
\* the CBUG of who_remove: every CLOSE it handles removes a person who is in
\* the working presence set.
SweepNeverAborts ==
    \A min \in Times, max \in Times :
        LET matches == ti_intersect(tidb, min, max)
        IN (min <= max /\ matches # <<>>)
           => \A r \in splits_init(matches_fix(matches, min, max), Len(matches)) :
                 r.st = "ok"

\* the stored intervals of the persons other than id
OthersIntervals(db, id) == {ti \in Range(db) : ti.who # id}

\* C35: a START or STOP line for user u inserts, deletes and modifies no
\* stored interval of another person, and leaves the name table entry of
\* every other username as it was.
FrameOfPerson ==
    [][(log' # log /\ IsIngest(log'[Len(log')]))
          => LET u == log'[Len(log')].u
                 id == g_find(gdb', u)
             IN /\ OthersIntervals(tidb', id) = OthersIntervals(tidb, id)
                /\ \A name \in DOMAIN gdb :
                      name # u => name \in DOMAIN gdb' /\ gdb'[name] = gdb[name]
                /\ DOMAIN gdb' \subseteq DOMAIN gdb \cup {u}]_vars

FrameOfPerson_Witness ==
    /\ log # <<>>
    /\ LastLine.op = "STOP"
    /\ status = "running"
    /\ \E k \in DOMAIN tidb :
          /\ tidb[k].who = g_find(gdb, LastLine.u)
          /\ tidb[k].min \in Times
          /\ tidb[k].max = LastLine.ts
    /\ \E k \in DOMAIN tidb :
          /\ tidb[k].who # g_find(gdb, LastLine.u)
          /\ tidb[k].max = tinf
          /\ tidb[k].min <= LastLine.ts

\* C36: handling a query line (a point, or a range with any modifier) on a
\* connection in QUERY state leaves the interval table, the name table and
\* the id counter unchanged.
QueriesReadOnly ==
    [][(last'.how = "query" /\ log' # log)
          => gdb' = gdb /\ g_len' = g_len /\ tidb' = tidb]_vars

QueriesReadOnly_Witness ==
    /\ last.how = "query"
    /\ CharAt(last.line, 0) = "*"
    /\ qres.kind = "range"
    /\ qres.st = "ok"
    /\ tidb # <<>>
    /\ AfterFirstLine(out) # <<>>

\* the sets of ids whose usernames, one per line, make up bytes
EmittedSets(bytes) ==
    {S \in SUBSET {gdb[name] : name \in DOMAIN gdb} :
        \E ids \in Listings(S) : bytes = name_lines(gdb, ids)}

\* C37: every username in the reply to a query line "+ <min> <max>" with
\* min < max is present at every instant t with min <= t < max.
AlwaysPresentSound ==
    (/\ last.how = "query"
     /\ last.line \in ModLines("+")
     /\ qres.st = "ok"
     /\ qres.min < qres.max)
    => \A S \in EmittedSets(AfterFirstLine(out)) :
          \A who \in S, t \in qres.min..(qres.max - 1) :
             ti_present(tidb, t, who)

====
